---------------------------- MODULE Spec2Model ----------------------------
(***************************************************************************)
(* A model of the data acquisition core of kookpy: the geocoder, the three *)
(* source fetchers (marine, wind, tide), the tide extremum search and the  *)
(* heuristic scorer of the batch collector.                                *)
(*                                                                         *)
(* Encodings.                                                              *)
(*  - An instant (datetime) is a whole number of hours since 1970-01-01    *)
(*    00:00; a date is the triple <<year, month, day>> that Python's date  *)
(*    holds; a 'YYYY-MM-DD' string is the sequence of its eight digits     *)
(*    (the two '-' at fixed places are left out).                          *)
(*  - A float is <<v>> for the number v and <<>> for NaN (JSON null), so   *)
(*    that arithmetic on a NaN is an evaluation error, never a number.     *)
(*    Scores are kept in tenths (the weights are 0.5, 0.4 and 0.1).        *)
(*  - A DataFrame is [cols |-> set of column names, rows |-> sequence of   *)
(*    rows], a row being a function from cols to values.                   *)
(***************************************************************************)
EXTENDS Integers, Sequences, FiniteSets, TLC

VARIABLES
    clock,      \* what datetime.now() returns: hours since the epoch
    call,       \* the invocation: [fn |-> name, ...arguments]
    upstream,   \* what each upstream source answers to a request
    requests,   \* the upstream requests issued by the invocation, in order
    frame,      \* the locals of the invocation that its result is made from
    ret,        \* the outcome: pending, a returned value, or a raised error
    files,      \* the files written: a function from file name to frame
    pc          \* "call" before the invocation has run, "loop" inside
                \* the collector's loop, "done" after

vars == <<clock, call, upstream, requests, frame, ret, files, pc>>

---------------------------------------------------------------------------
(* Bounds of the model. *)

\* dates the clock and the date arguments range over (consecutive days)
MaxDays == 3
\* rows of an upstream hourly array in the fetcher specification
MaxRows == 1
\* samples of a tide series in the tide specification
MaxLen == 5
\* results of a geocoding answer
MaxResults == 2
\* rows of a frame handed to the heuristic scorer
MaxScoreRows == 1
\* dates of the range the batch collector is asked for
MaxCollectDays == 2
MaxMergeRows == 2
MaxElapsed == 1
MaxCsvRows == 2
MaxTrainerRuns == 1
MaxPredictCalls == 2

---------------------------------------------------------------------------
(* The program's constants. *)

GEOCODING_API_URL == "https://geocoding-api.open-meteo.com/v1/search"
MARINE_API_URL == "https://marine-api.open-meteo.com/v1/marine"
WEATHER_API_URL == "https://api.open-meteo.com/v1/forecast"
HISTORICAL_WEATHER_API_URL == "https://archive-api.open-meteo.com/v1/archive"

\* the sentinel of a missing reading, as fetch_tide_data replaces it
Sentinel == -999

MarineHourly ==
    {"swell_wave_height", "swell_wave_period", "wave_direction",
     "sea_level_height_msl"}
WindHourly == {"wind_speed_10m", "wind_direction_10m"}
TideHourly == {"sea_level_height_msl"}

---------------------------------------------------------------------------
(* Dates: datetime.date, strftime('%Y-%m-%d'), strptime(.., '%Y-%m-%d'). *)

IsLeap(y) == (y % 4 = 0 /\ y % 100 # 0) \/ y % 400 = 0

DaysInMonth(y, m) ==
    IF m = 2 THEN (IF IsLeap(y) THEN 29 ELSE 28)
    ELSE IF m \in {4, 6, 9, 11} THEN 30 ELSE 31

\* date + timedelta(days=1)
NextDate(d) ==
    IF d[3] < DaysInMonth(d[1], d[2]) THEN <<d[1], d[2], d[3] + 1>>
    ELSE IF d[2] < 12 THEN <<d[1], d[2] + 1, 1>>
    ELSE <<d[1] + 1, 1, 1>>

RECURSIVE AddDays(_, _)
\* date + timedelta(days=n), n >= 0
AddDays(d, n) == IF n = 0 THEN d ELSE AddDays(NextDate(d), n - 1)

\* date.__lt__: dates compare as (year, month, day)
DateLT(a, b) ==
    \/ a[1] < b[1]
    \/ a[1] = b[1] /\ a[2] < b[2]
    \/ a[1] = b[1] /\ a[2] = b[2] /\ a[3] < b[3]

DateLE(a, b) == a = b \/ DateLT(a, b)

\* days from 1970-01-01 to the date (proleptic Gregorian)
DayNumber(d) ==
    LET y == IF d[2] <= 2 THEN d[1] - 1 ELSE d[1]
        era == y \div 400
        yoe == y - era * 400
        mp == (d[2] + 9) % 12
        doy == (153 * mp + 2) \div 5 + d[3] - 1
        doe == yoe * 365 + yoe \div 4 - yoe \div 100 + doy
    IN  era * 146097 + doe - 719468

\* the date of a day number
CivilDate(z0) ==
    LET z == z0 + 719468
        era == z \div 146097
        doe == z - era * 146097
        yoe == (doe - doe \div 1460 + doe \div 36524 - doe \div 146096) \div 365
        doy == doe - (365 * yoe + yoe \div 4 - yoe \div 100)
        mp == (5 * doy + 2) \div 153
        dd == doy - (153 * mp + 2) \div 5 + 1
        mm == IF mp < 10 THEN mp + 3 ELSE mp - 9
        yy == yoe + era * 400 + (IF mm <= 2 THEN 1 ELSE 0)
    IN  <<yy, mm, dd>>

\* datetime.now().date(): the date of an instant
DateOf(t) == CivilDate(t \div 24)

\* datetime.strftime('%Y-%m-%d'): zero-padded digits of year, month, day
StrFTime(d) ==
    <<(d[1] \div 1000) % 10, (d[1] \div 100) % 10, (d[1] \div 10) % 10,
      d[1] % 10, d[2] \div 10, d[2] % 10, d[3] \div 10, d[3] % 10>>

\* datetime.strptime(s, '%Y-%m-%d').date()
StrPTime(s) ==
    <<1000 * s[1] + 100 * s[2] + 10 * s[3] + s[4], 10 * s[5] + s[6],
      10 * s[7] + s[8]>>

\* Timestamp.strftime('%H:%M %p') of a whole-hour instant
StrFTimeHM(t) ==
    [hour |-> t % 24, minute |-> 0,
     ampm |-> IF t % 24 < 12 THEN "AM" ELSE "PM"]

---------------------------------------------------------------------------
(* Floats. *)

NaN == <<>>
Num(v) == <<v>>
IsNaN(x) == x = <<>>
Val(x) == x[1]

---------------------------------------------------------------------------
(* DataFrames. *)

\* pd.DataFrame()
EmptyFrame == [cols |-> {}, rows |-> <<>>]

\* DataFrame.empty: either axis has length 0
IsEmpty(df) == df.cols = {} \/ df.rows = <<>>

\* the lengths of the arrays of an hourly object
ArrayLens(hourly) == {Len(hourly[c]) : c \in DOMAIN hourly}

\* pd.DataFrame(dict of arrays): one row per index; arrays of different
\* lengths are a ValueError
FrameOf(hourly) ==
    LET n == IF DOMAIN hourly = {} THEN 0
             ELSE CHOOSE k \in ArrayLens(hourly) : TRUE
    IN  [cols |-> DOMAIN hourly,
         rows |-> [i \in 1..n |-> [c \in DOMAIN hourly |-> hourly[c][i]]]]


\* pd.to_datetime of an ISO hour stamp [date |-> 'YYYY-MM-DD', hour |-> h]
ToDatetime(iso) == 24 * DayNumber(StrPTime(iso.date)) + iso.hour

\* df['time'] = pd.to_datetime(df['time'])
WithDatetime(df) ==
    [df EXCEPT !.rows =
        [i \in 1..Len(df.rows) |->
            [df.rows[i] EXCEPT !["time"] = ToDatetime(df.rows[i]["time"])]]]

---------------------------------------------------------------------------
(* Outcomes of an invocation, and Python values. *)

Pending == [kind |-> "pending"]
Returned(v) == [kind |-> "returned", value |-> v]
Raised(e) == [kind |-> "raised", exc |-> e]
\* an exception whose argument names a key
RaisedWith(e, key) == [kind |-> "raised", exc |-> e, key |-> key]

None == [type |-> "None"]
Frame(df) == [type |-> "DataFrame", df |-> df]
Dict(d) == [type |-> "dict", items |-> d]
Float(x) == [type |-> "float", value |-> x]

---------------------------------------------------------------------------
(* The upstream.  A source answers a GET with a connection failure         *)
(* (requests.get raises), an HTTP error status (raise_for_status raises),  *)
(* or a JSON object.                                                       *)

Failed(o) == o.kind \in {"neterr", "httperr"}

\* the request requests.get(url, params=params) sends
Request(url, latitude, longitude, hourly, start_date, end_date) ==
    [url |-> url,
     params |-> [latitude |-> latitude, longitude |-> longitude,
                 hourly |-> hourly, start_date |-> start_date,
                 end_date |-> end_date]]

---------------------------------------------------------------------------
(* fetch_marine_data and fetch_wind_data. *)

\* the try block shared by the two fetchers: only RequestException is
\* caught; the DataFrame constructor and df['time'] are inside the try
HourlyFrame(o) ==
    IF Failed(o) THEN Returned(Frame(EmptyFrame))
    ELSE IF "hourly" \in DOMAIN o.body
    THEN LET hourly == o.body.hourly
         IN  IF Cardinality(ArrayLens(hourly)) > 1 THEN Raised("ValueError")
             ELSE IF "time" \notin DOMAIN hourly THEN Raised("KeyError")
             ELSE Returned(Frame(WithDatetime(FrameOf(hourly))))
    ELSE Returned(Frame(EmptyFrame))

MarineRequest(c) ==
    Request(MARINE_API_URL, c.latitude, c.longitude,
            <<"swell_wave_height", "swell_wave_period", "wave_direction",
              "sea_level_height_msl">>,
            c.start_date, c.end_date)

IsHistoricalAtOrBefore(start_date, now) ==
    DateLE(StrPTime(start_date), DateOf(now))

\* is_historical
IsHistorical(start_date, now) == DateLT(StrPTime(start_date), DateOf(now))

\* a fetcher that asks the forecast endpoint whatever the dates
WindUrlForecast(start_date, now) == WEATHER_API_URL

WindUrl(start_date, now) ==
    IF IsHistorical(start_date, now) THEN HISTORICAL_WEATHER_API_URL
    ELSE WEATHER_API_URL

WindRequest(c, now) ==
    Request(WindUrl(c.start_date, now), c.latitude, c.longitude,
            <<"wind_speed_10m", "wind_direction_10m">>,
            c.start_date, c.end_date)

fetch_marine_data ==
    /\ pc = "call"
    /\ call.fn = "fetch_marine_data"
    /\ requests' = Append(requests, MarineRequest(call))
    /\ ret' = HourlyFrame(upstream.marine)
    /\ pc' = "done"
    /\ UNCHANGED <<clock, call, upstream, frame, files>>

fetch_wind_data ==
    /\ pc = "call"
    /\ call.fn = "fetch_wind_data"
    /\ requests' = Append(requests, WindRequest(call, clock))
    /\ ret' = HourlyFrame(upstream.wind)
    /\ pc' = "done"
    /\ UNCHANGED <<clock, call, upstream, frame, files>>

---------------------------------------------------------------------------
(* fetch_tide_data. *)

\* a reading kept as it came
KeepSentinel(x) == x

\* Series.replace(-999, np.nan) on one value
ReplaceSentinel(x) == IF ~IsNaN(x) /\ Val(x) = Sentinel THEN NaN ELSE x

\* df['sea_level_height_msl'] after the replacement
SeaLevel(df) ==
    [i \in 1..Len(df.rows) |-> ReplaceSentinel(df.rows[i]["sea_level_height_msl"])]

Max3(a, b, c) ==
    IF a >= b /\ a >= c THEN a ELSE IF b >= c THEN b ELSE c

Min3(a, b, c) ==
    IF a <= b /\ a <= c THEN a ELSE IF b <= c THEN b ELSE c

\* whether the centred window of width 3 at i is complete: rolling() has
\* min_periods = window, so a window that runs over an end of the series or
\* holds a NaN yields NaN
WindowDefined(s, i) ==
    /\ 1 < i
    /\ i < Len(s)
    /\ ~IsNaN(s[i - 1])
    /\ ~IsNaN(s[i])
    /\ ~IsNaN(s[i + 1])

\* s.rolling(window=3, center=True).max() at i
RollingMax(s, i) ==
    IF WindowDefined(s, i)
    THEN Num(Max3(Val(s[i - 1]), Val(s[i]), Val(s[i + 1])))
    ELSE NaN

\* s.rolling(window=3, center=True).min() at i
RollingMin(s, i) ==
    IF WindowDefined(s, i)
    THEN Num(Min3(Val(s[i - 1]), Val(s[i]), Val(s[i + 1])))
    ELSE NaN

\* float ==: a comparison with NaN is False
FloatEq(x, y) == ~IsNaN(x) /\ ~IsNaN(y) /\ Val(x) = Val(y)

IsMaxNoWindowCheck(s, i) ==
    /\ ~IsNaN(s[i])
    /\ (i = 1 \/ IsNaN(s[i - 1]) \/ Val(s[i - 1]) <= Val(s[i]))
    /\ (i = Len(s) \/ IsNaN(s[i + 1]) \/ Val(s[i + 1]) <= Val(s[i]))

\* is_max at i
IsMax(s, i) == FloatEq(s[i], RollingMax(s, i))

\* is_min at i
IsMin(s, i) == FloatEq(s[i], RollingMin(s, i))

RECURSIVE Select(_, _, _)
\* the rows i..Len(rows) of rows whose index is in keep, in row order
Select(rows, keep, i) ==
    IF i > Len(rows) THEN <<>>
    ELSE IF i \in keep THEN <<rows[i]>> \o Select(rows, keep, i + 1)
    ELSE Select(rows, keep, i + 1)

\* whether a cell is NaN: a timestamp never is
CellIsNaN(row, c) == c # "time" /\ IsNaN(row[c])

\* df[mask] with the sea level column replaced
Masked(df, s, keep) ==
    Select([i \in 1..Len(df.rows) |->
               [df.rows[i] EXCEPT !["sea_level_height_msl"] = s[i]]],
           keep, 1)

\* DataFrame.dropna() on rows
DropNa(rows) ==
    Select(rows,
           {i \in 1..Len(rows) :
               \A c \in DOMAIN rows[i] : ~CellIsNaN(rows[i], c)},
           1)

\* df[is_max].dropna()
HighTides(df) ==
    LET s == SeaLevel(df)
    IN  DropNa(Masked(df, s, {i \in 1..Len(s) : IsMax(s, i)}))

\* df[is_min].dropna()
LowTides(df) ==
    LET s == SeaLevel(df)
    IN  DropNa(Masked(df, s, {i \in 1..Len(s) : IsMin(s, i)}))

\* tides[tides['time'] > now]
After(tides, now) ==
    Select(tides, {i \in 1..Len(tides) : tides[i]["time"] > now}, 1)

NextTideLast(tides, now) ==
    LET later == After(tides, now)
    IN  IF later = <<>> THEN <<>> ELSE <<later[Len(later)]>>

\* tides[tides['time'] > now].iloc[0] if there is such a row, else None:
\* <<row>> or <<>>
NextTide(tides, now) ==
    LET later == After(tides, now)
    IN  IF later = <<>> THEN <<>> ELSE <<later[1]>>

\* the entry of the result for one tide
TideEntry(row) ==
    [time |-> StrFTimeHM(row["time"]),
     height_m |-> row["sea_level_height_msl"]]

\* the locals of fetch_tide_data once the frame is built
TideLocals(df, now) ==
    LET high_tides == HighTides(df)
        low_tides == LowTides(df)
    IN  [high_tides |-> high_tides,
         low_tides |-> low_tides,
         now |-> now,
         next_high_tide |-> NextTide(high_tides, now),
         next_low_tide |-> NextTide(low_tides, now)]

\* a result that always carries both fields, a missing one as a null entry
TideResultWithNulls(loc) ==
    [k \in {"next_high_tide", "next_low_tide"} |->
        IF loc[k] # <<>> THEN TideEntry(loc[k][1])
        ELSE [time |-> StrFTimeHM(0), height_m |-> NaN]]

\* result, as built from next_high_tide and next_low_tide
TideResult(loc) ==
    LET keys == {k \in {"next_high_tide", "next_low_tide"} : loc[k] # <<>>}
    IN  [k \in keys |-> TideEntry(loc[k][1])]

\* whether the body of the try block gets as far as the extremum search:
\* a KeyError or ValueError on the way is caught by 'except Exception'
TideFrameBuilt(o) ==
    /\ ~Failed(o)
    /\ "hourly" \in DOMAIN o.body
    /\ "sea_level_height_msl" \in DOMAIN o.body.hourly
    /\ o.body.hourly["sea_level_height_msl"] # <<>>
    /\ Cardinality(ArrayLens(o.body.hourly)) = 1
    /\ "time" \in DOMAIN o.body.hourly

NoLocals == [high_tides |-> <<>>, low_tides |-> <<>>, now |-> 0,
             next_high_tide |-> <<>>, next_low_tide |-> <<>>]

TideFrame(o, now) ==
    IF TideFrameBuilt(o)
    THEN TideLocals(WithDatetime(FrameOf(o.body.hourly)), now)
    ELSE NoLocals

\* the value fetch_tide_data returns: 'result if result else None', and None
\* on every path that leaves the try block early
TideReturn(o, loc) ==
    IF TideFrameBuilt(o) /\ DOMAIN TideResult(loc) # {}
    THEN Returned(Dict(TideResult(loc)))
    ELSE Returned(None)

TideUrlByDate(start_date, now) ==
    IF IsHistorical(start_date, now) THEN HISTORICAL_WEATHER_API_URL
    ELSE WEATHER_API_URL

\* url of fetch_tide_data
TideUrl(start_date, now) == MARINE_API_URL

TideRequest(c, now) ==
    Request(TideUrl(c.start_date, now), c.latitude, c.longitude,
            <<"sea_level_height_msl">>, c.start_date, c.end_date)

fetch_tide_data ==
    /\ pc = "call"
    /\ call.fn = "fetch_tide_data"
    /\ requests' = Append(requests, TideRequest(call, clock))
    /\ frame' = TideFrame(upstream.tide, clock)
    /\ ret' = TideReturn(upstream.tide, frame')
    /\ pc' = "done"
    /\ UNCHANGED <<clock, call, upstream, files>>

---------------------------------------------------------------------------
(* geocode_location. *)

GeocodeRequest(location_name) ==
    [url |-> GEOCODING_API_URL, params |-> [name |-> location_name]]

GeocodeLastResult(o) ==
    IF Failed(o) THEN Returned(None)
    ELSE IF "results" \in DOMAIN o.body /\ o.body.results # <<>>
    THEN Returned(Dict([latitude |-> o.body.results[Len(o.body.results)].latitude,
                        longitude |-> o.body.results[Len(o.body.results)].longitude]))
    ELSE Returned(None)

\* the value geocode_location returns
GeocodeReturn(o) ==
    IF Failed(o) THEN Returned(None)
    ELSE IF "results" \in DOMAIN o.body /\ o.body.results # <<>>
    THEN Returned(Dict([latitude |-> o.body.results[1].latitude,
                        longitude |-> o.body.results[1].longitude]))
    ELSE Returned(None)

geocode_location ==
    /\ pc = "call"
    /\ call.fn = "geocode_location"
    /\ requests' = Append(requests, GeocodeRequest(call.location_name))
    /\ ret' = GeocodeReturn(upstream.geocoding)
    /\ pc' = "done"
    /\ UNCHANGED <<clock, call, upstream, frame, files>>

---------------------------------------------------------------------------
(* calculate_heuristic_score.  Scores are in tenths. *)

ScoreFeatures == {"swell_wave_height", "swell_wave_period", "wind_speed_10m"}

RawScore10WindAdded(row) ==
    IF \E c \in ScoreFeatures : IsNaN(row[c]) THEN NaN
    ELSE Num(5 * Val(row["swell_wave_height"])
             + 4 * Val(row["swell_wave_period"])
             + Val(row["wind_speed_10m"]))

\* 0.5 * height + 0.4 * period - 0.1 * wind, NaN if any of them is
RawScore10(row) ==
    IF \E c \in ScoreFeatures : IsNaN(row[c]) THEN NaN
    ELSE Num(5 * Val(row["swell_wave_height"])
             + 4 * Val(row["swell_wave_period"])
             - Val(row["wind_speed_10m"]))

\* max(0, x): Python's max keeps its first argument unless x > 0, and
\* no comparison with NaN is true
NonNegative(x) == IF ~IsNaN(x) /\ Val(x) > 0 THEN x ELSE Num(0)

\* the wave_quality_score of one row
HeuristicScore10(row) == NonNegative(RawScore10(row))

\* the columns in the order the formula reads them
ScoreTerms == <<"swell_wave_height", "swell_wave_period", "wind_speed_10m">>

\* the column whose lookup fails: the first the formula reads and the frame
\* lacks
FirstMissing(cols) ==
    ScoreTerms[CHOOSE i \in 1..Len(ScoreTerms) :
                  /\ ScoreTerms[i] \notin cols
                  /\ \A j \in 1..(i - 1) : ScoreTerms[j] \in cols]

\* the frame calculate_heuristic_score returns: a KeyError, naming the
\* column, when a feature column is missing
ScoredFrame(df) ==
    IF ~(ScoreFeatures \subseteq df.cols)
    THEN RaisedWith("KeyError", FirstMissing(df.cols))
    ELSE Returned(Frame(
            [cols |-> df.cols \cup {"wave_quality_score"},
             rows |-> [i \in 1..Len(df.rows) |->
                 [c \in df.cols \cup {"wave_quality_score"} |->
                     IF c = "wave_quality_score"
                     THEN HeuristicScore10(df.rows[i])
                     ELSE df.rows[i][c]]]]))

calculate_heuristic_score ==
    /\ pc = "call"
    /\ call.fn = "calculate_heuristic_score"
    /\ ret' = ScoredFrame(call.df)
    /\ pc' = "done"
    /\ UNCHANGED <<clock, call, upstream, requests, frame, files>>

---------------------------------------------------------------------------
(* pd.merge(left, right, on='time', how='inner') and pd.concat. *)

\* one merged row: the columns of both rows (the fetched variables of the
\* two sources have different names; 'time' is the key)
JoinRow(lrow, rrow) ==
    [c \in DOMAIN lrow \cup DOMAIN rrow |->
        IF c \in DOMAIN lrow THEN lrow[c] ELSE rrow[c]]

RECURSIVE Matches(_, _, _)
\* the joins of one left row with the right rows j.. of the same time, in
\* the order of the right rows
Matches(lrow, rrows, j) ==
    IF j > Len(rrows) THEN <<>>
    ELSE IF rrows[j]["time"] = lrow["time"]
    THEN <<JoinRow(lrow, rrows[j])>> \o Matches(lrow, rrows, j + 1)
    ELSE Matches(lrow, rrows, j + 1)

RECURSIVE InnerRows(_, _, _)
\* the rows of the inner join, in the order of the left keys
InnerRows(lrows, rrows, i) ==
    IF i > Len(lrows) THEN <<>>
    ELSE Matches(lrows[i], rrows, 1) \o InnerRows(lrows, rrows, i + 1)

\* a row widened to the columns cols, NaN where it has none
Widen(row, cols) ==
    [c \in cols |-> IF c \in DOMAIN row THEN row[c] ELSE NaN]

\* pd.merge(left, right, on='time', how='left'): every left row, NaN where
\* no right row has its time
LeftMerge(left, right) ==
    [cols |-> left.cols \cup right.cols,
     rows |-> [i \in 1..Len(left.rows) |->
                 IF Matches(left.rows[i], right.rows, 1) # <<>>
                 THEN Matches(left.rows[i], right.rows, 1)[1]
                 ELSE Widen(left.rows[i], left.cols \cup right.cols)]]

\* pd.merge(left, right, on='time', how='inner')
Merge(left, right) ==
    [cols |-> left.cols \cup right.cols,
     rows |-> InnerRows(left.rows, right.rows, 1)]

RECURSIVE ConcatRows(_, _, _)
ConcatRows(frames, cols, k) ==
    IF k > Len(frames) THEN <<>>
    ELSE [i \in 1..Len(frames[k].rows) |-> Widen(frames[k].rows[i], cols)]
         \o ConcatRows(frames, cols, k + 1)

\* pd.concat(frames, ignore_index=True)
Concat(frames) ==
    LET cols == UNION {frames[k].cols : k \in 1..Len(frames)}
    IN  [cols |-> cols, rows |-> ConcatRows(frames, cols, 1)]

---------------------------------------------------------------------------
(* get_surf_forecast_by_name. *)

\* today and end_date = today + timedelta(days=6), as the fetch arguments
ForecastCall(coords, now) ==
    [latitude |-> coords.latitude, longitude |-> coords.longitude,
     start_date |-> StrFTime(DateOf(now)),
     end_date |-> StrFTime(AddDays(DateOf(now), 6))]

\* the requests of an invocation that repeats a fetch whose answer failed
ForecastRequestsRetrying(name, og, om, ow, now, later) ==
    <<GeocodeRequest(name)>>
    \o (IF GeocodeReturn(og).value = None THEN <<>>
        ELSE LET c == ForecastCall(GeocodeReturn(og).value.items, now)
             IN  <<MarineRequest(c)>>
                 \o (IF Failed(om) THEN <<MarineRequest(c)>> ELSE <<>>)
                 \o (IF HourlyFrame(om).kind = "raised" THEN <<>>
                     ELSE <<WindRequest(c, later)>>))

\* the upstream requests of one invocation, in the order they are issued:
\* geocoding; then, with coordinates, marine; then, unless the marine fetch
\* raised, wind.  The dates of the range are those of now, the reading of
\* the clock by the facade; fetch_wind_data reads the clock again, later
ForecastRequests(name, og, om, ow, now, later) ==
    <<GeocodeRequest(name)>>
    \o (IF GeocodeReturn(og).value = None THEN <<>>
        ELSE LET c == ForecastCall(GeocodeReturn(og).value.items, now)
             IN  <<MarineRequest(c)>>
                 \o (IF HourlyFrame(om).kind = "raised" THEN <<>>
                     ELSE <<WindRequest(c, later)>>))

\* the locals marine_data and wind_data (the empty frame while unbound)
ForecastLocals(og, om, ow) ==
    LET reached == GeocodeReturn(og).value # None
        marine == HourlyFrame(om)
        wind == HourlyFrame(ow)
    IN  [marine_data |-> IF reached /\ marine.kind = "returned"
                         THEN marine.value.df ELSE EmptyFrame,
         wind_data |-> IF reached /\ marine.kind = "returned"
                          /\ wind.kind = "returned"
                       THEN wind.value.df ELSE EmptyFrame]

\* a facade that hands out the marine table when the wind table is empty
ForecastReturnMarineOnly(og, om, ow) ==
    LET loc == ForecastLocals(og, om, ow)
    IN  IF GeocodeReturn(og).value = None THEN Returned(Frame(EmptyFrame))
        ELSE IF HourlyFrame(om).kind = "raised" THEN HourlyFrame(om)
        ELSE IF HourlyFrame(ow).kind = "raised" THEN HourlyFrame(ow)
        ELSE IF ~IsEmpty(loc.marine_data) /\ ~IsEmpty(loc.wind_data)
        THEN Returned(Frame(Merge(loc.marine_data, loc.wind_data)))
        ELSE Returned(Frame(loc.marine_data))

\* what the invocation returns, or the error of a fetcher that leaves it
ForecastReturn(og, om, ow) ==
    LET loc == ForecastLocals(og, om, ow)
    IN  IF GeocodeReturn(og).value = None THEN Returned(Frame(EmptyFrame))
        ELSE IF HourlyFrame(om).kind = "raised" THEN HourlyFrame(om)
        ELSE IF HourlyFrame(ow).kind = "raised" THEN HourlyFrame(ow)
        ELSE IF ~IsEmpty(loc.marine_data) /\ ~IsEmpty(loc.wind_data)
        THEN Returned(Frame(Merge(loc.marine_data, loc.wind_data)))
        ELSE Returned(Frame(EmptyFrame))

\* one invocation, elapsed being the time that passes between the reading
\* of the clock by the facade and the one by fetch_wind_data
GetSurfForecastByName(elapsed) ==
    /\ pc = "call"
    /\ call.fn = "get_surf_forecast_by_name"
    /\ clock' = clock + elapsed
    /\ requests' = requests
                    \o ForecastRequests(call.location_name, upstream.geocoding,
                                        upstream.marine, upstream.wind, clock,
                                        clock + elapsed)
    /\ frame' = ForecastLocals(upstream.geocoding, upstream.marine,
                               upstream.wind)
    /\ ret' = ForecastReturn(upstream.geocoding, upstream.marine,
                             upstream.wind)
    /\ pc' = "done"
    /\ UNCHANGED <<call, upstream, files>>

---------------------------------------------------------------------------
(* collect_and_save_historical_data: its start (geocoding, the parsing of  *)
(* the dates), one pass of its loop per date, and its end (the export).    *)

OutputFile == "historical_surf_data.csv"

CollectorLocals(coords, current_date, end_date, all_data) ==
    [coords |-> coords, current_date |-> current_date, end_date |-> end_date,
     all_data |-> all_data, marine_data |-> EmptyFrame,
     wind_data |-> EmptyFrame, merged_data |-> EmptyFrame, sleeps |-> 0]

\* the fetch arguments of the pass for the date current_date
DayCall(loc) ==
    [latitude |-> loc.coords.latitude, longitude |-> loc.coords.longitude,
     start_date |-> StrFTime(loc.current_date),
     end_date |-> StrFTime(loc.current_date)]

\* the end of a pass without the delay
NextPassNoSleep(loc) ==
    [loc EXCEPT !.current_date = NextDate(loc.current_date)]

\* the end of a pass: current_date += timedelta(days=1); time.sleep(1)
NextPass(loc) ==
    [loc EXCEPT !.current_date = NextDate(loc.current_date),
                !.sleeps = loc.sleeps + 1]

\* the start, with the geocoder answering o
CollectStart(o) ==
    /\ pc = "call"
    /\ call.fn = "collect_and_save_historical_data"
    /\ upstream' = [upstream EXCEPT !.geocoding = o]
    /\ requests' = Append(requests, GeocodeRequest(call.location_name))
    /\ IF GeocodeReturn(o).value = None
       THEN /\ ret' = Returned(None)
            /\ pc' = "done"
            /\ frame' = frame
       ELSE /\ ret' = ret
            /\ pc' = "loop"
            /\ frame' = CollectorLocals(GeocodeReturn(o).value.items,
                                        StrPTime(call.start_date_str),
                                        StrPTime(call.end_date_str),
                                        <<>>)
    /\ UNCHANGED <<clock, call, files>>

\* a pass whose marine fetch raises: the error leaves the function
CollectDayMarineRaises(om) ==
    /\ pc = "loop"
    /\ DateLE(frame.current_date, frame.end_date)
    /\ HourlyFrame(om).kind = "raised"
    /\ upstream' = [upstream EXCEPT !.marine = om]
    /\ requests' = Append(requests, MarineRequest(DayCall(frame)))
    /\ ret' = HourlyFrame(om)
    /\ pc' = "done"
    /\ UNCHANGED <<clock, call, frame, files>>

\* a pass whose wind fetch raises
CollectDayWindRaises(om, ow) ==
    /\ pc = "loop"
    /\ DateLE(frame.current_date, frame.end_date)
    /\ HourlyFrame(om).kind = "returned"
    /\ HourlyFrame(ow).kind = "raised"
    /\ upstream' = [upstream EXCEPT !.marine = om, !.wind = ow]
    /\ requests' = requests \o <<MarineRequest(DayCall(frame)),
                                 WindRequest(DayCall(frame), clock)>>
    /\ ret' = HourlyFrame(ow)
    /\ pc' = "done"
    /\ frame' = [frame EXCEPT !.marine_data = HourlyFrame(om).value.df]
    /\ UNCHANGED <<clock, call, files>>

\* the locals at the end of a pass in which both fetches returned, and the
\* KeyError of the scorer if it raised one
DayOutcome(loc, marine_data, wind_data) ==
    LET fetched == [loc EXCEPT !.marine_data = marine_data,
                               !.wind_data = wind_data]
        merged_data == Merge(marine_data, wind_data)
        merged == [fetched EXCEPT !.merged_data = merged_data]
    IN  IF IsEmpty(marine_data) \/ IsEmpty(wind_data)
        THEN [locals |-> NextPass(fetched), raised |-> <<>>]
        ELSE IF IsEmpty(merged_data)
        THEN [locals |-> NextPass(merged), raised |-> <<>>]
        ELSE IF ScoredFrame(merged_data).kind = "raised"
        THEN [locals |-> merged, raised |-> <<ScoredFrame(merged_data)>>]
        ELSE [locals |-> NextPass(
                [merged EXCEPT !.all_data =
                    Append(loc.all_data, ScoredFrame(merged_data).value.df)]),
              raised |-> <<>>]

\* a pass in which both fetches return
CollectDay(om, ow) ==
    /\ pc = "loop"
    /\ DateLE(frame.current_date, frame.end_date)
    /\ HourlyFrame(om).kind = "returned"
    /\ HourlyFrame(ow).kind = "returned"
    /\ upstream' = [upstream EXCEPT !.marine = om, !.wind = ow]
    /\ requests' = requests \o <<MarineRequest(DayCall(frame)),
                                 WindRequest(DayCall(frame), clock)>>
    /\ LET out == DayOutcome(frame, HourlyFrame(om).value.df,
                             HourlyFrame(ow).value.df)
       IN  /\ frame' = out.locals
           /\ ret' = IF out.raised = <<>> THEN ret ELSE out.raised[1]
           /\ pc' = IF out.raised = <<>> THEN pc ELSE "done"
    /\ UNCHANGED <<clock, call, files>>

\* a clean-up that keeps every row
KeepNaFrame(df) == df

\* combined_df.dropna(inplace=True)
DropNaFrame(df) == [df EXCEPT !.rows = DropNa(df.rows)]

\* the end of the loop: the export, when a pass contributed a frame
CollectSave ==
    /\ pc = "loop"
    /\ ~DateLE(frame.current_date, frame.end_date)
    /\ files' = IF frame.all_data # <<>>
                THEN [name \in DOMAIN files \cup {OutputFile} |->
                        IF name = OutputFile
                        THEN DropNaFrame(Concat(frame.all_data))
                        ELSE files[name]]
                ELSE files
    /\ ret' = Returned(None)
    /\ pc' = "done"
    /\ UNCHANGED <<clock, call, upstream, requests, frame>>

---------------------------------------------------------------------------
(* model_trainer.py (the script) and predict_surf_quality.  An artifact    *)
(* on disk is modelled by the list of features it was fitted on.           *)

ModelFile == "wave_prediction_model.keras"
ScalerXFile == "scaler_X.pkl"
ScalerYFile == "scaler_y.pkl"
Artifacts == {ModelFile, ScalerXFile, ScalerYFile}

\* features of model_trainer.py and of predict_surf_quality
TrainerFeatures ==
    <<"swell_wave_height", "swell_wave_period", "wind_speed_10m">>
TrainerTarget == <<"wave_quality_score">>
PredictFeatures ==
    <<"swell_wave_height", "swell_wave_period", "wind_speed_10m",
      "sea_level_height_msl">>

\* the elements of a list
Elems(s) == {s[i] : i \in 1..Len(s)}

\* a file system with the file name holding content
WithFile(fs, name, content) ==
    [n \in DOMAIN fs \cup {name} |-> IF n = name THEN content ELSE fs[n]]

\* train_test_split(X, y, test_size=0.2): the test set takes ceil(0.2 * n)
\* samples, and an empty training set is a ValueError
TrainSize(n) == n - ((n + 4) \div 5)

\* the files after a run of the script: nothing is written unless the CSV
\* exists, has rows after dropna, has the feature and target columns and
\* leaves a training set; then the model and the two scalers, each fitted
\* on X = df[features] (the target scaler on y = df[target])
Trained(fs) ==
    IF OutputFile \notin DOMAIN fs THEN fs
    ELSE LET df == DropNaFrame(fs[OutputFile])
         IN  IF IsEmpty(df) THEN fs
             ELSE IF ~(Elems(TrainerFeatures) \cup Elems(TrainerTarget)
                         \subseteq df.cols) THEN fs
             ELSE IF TrainSize(Len(df.rows)) < 1 THEN fs
             ELSE WithFile(
                    WithFile(
                      WithFile(fs, ModelFile, [features |-> TrainerFeatures]),
                      ScalerXFile, [features |-> TrainerFeatures]),
                    ScalerYFile, [features |-> TrainerTarget])

\* st.cache_resource: what the process holds of earlier loads
NoCache == [model |-> <<>>, scalers |-> <<>>]

\* load_model(): the cached model, or the file's, or FileNotFoundError
LoadModel(fs, cache) ==
    IF cache.model # <<>> THEN Returned(cache.model[1])
    ELSE IF ModelFile \notin DOMAIN fs THEN Raised("FileNotFoundError")
    ELSE Returned(fs[ModelFile])

\* load_scalers(): both scalers, or FileNotFoundError when either is absent
LoadScalers(fs, cache) ==
    IF cache.scalers # <<>> THEN Returned(cache.scalers[1])
    ELSE IF ScalerXFile \notin DOMAIN fs \/ ScalerYFile \notin DOMAIN fs
    THEN Raised("FileNotFoundError")
    ELSE Returned([scaler_X |-> fs[ScalerXFile], scaler_y |-> fs[ScalerYFile]])

\* the cache after the two loads of an invocation
CacheAfter(fs, cache) ==
    LET model == LoadModel(fs, cache)
        scalers == LoadScalers(fs, cache)
    IN  [model |-> IF model.kind = "returned" THEN <<model.value>>
                   ELSE cache.model,
         scalers |-> IF model.kind = "returned" /\ scalers.kind = "returned"
                     THEN <<scalers.value>> ELSE cache.scalers]

\* the labels of features that data_point lacks
MissingOf(data_point) == Elems(PredictFeatures) \ DOMAIN data_point.row

\* the body of the try block: what is handed to scaler_X.transform (nothing
\* when data_point[features] already failed), what is printed, and the
\* value returned; score is what the network answers
PredictTry(scalers, data_point, score) ==
    IF data_point.kind = "dict"
    THEN [handed |-> <<>>, printed |-> <<"Error during prediction">>,
          ret |-> Returned(None)]
    ELSE IF MissingOf(data_point) # {}
    THEN [handed |-> <<>>,
          printed |-> <<"Error: Missing feature in data point",
                        MissingOf(data_point)>>,
          ret |-> Returned(None)]
    ELSE IF scalers.scaler_X.features # PredictFeatures
    THEN [handed |-> <<PredictFeatures>>,
          printed |-> <<"Error during prediction">>,
          ret |-> Returned(None)]
    ELSE [handed |-> <<PredictFeatures>>, printed |-> <<>>,
          ret |-> Returned(Float(score))]

\* a predictor that scores with the heuristic when an artifact is absent
PredictOrHeuristic(fs, cache, data_point, score) ==
    IF LoadModel(fs, cache).kind = "raised"
       \/ LoadScalers(fs, cache).kind = "raised"
    THEN [handed |-> <<>>, printed |-> <<>>, ret |-> Returned(Float(Num(0)))]
    ELSE PredictTry(LoadScalers(fs, cache).value, data_point, score)

\* a predictor that raises the KeyError of a missing feature
PredictRaisingKeyError(fs, cache, data_point, score) ==
    IF LoadModel(fs, cache).kind = "raised"
    THEN [handed |-> <<>>, printed |-> <<>>, ret |-> LoadModel(fs, cache)]
    ELSE IF LoadScalers(fs, cache).kind = "raised"
    THEN [handed |-> <<>>, printed |-> <<>>, ret |-> LoadScalers(fs, cache)]
    ELSE IF data_point.kind # "dict" /\ MissingOf(data_point) # {}
    THEN [handed |-> <<>>, printed |-> <<>>, ret |-> Raised("KeyError")]
    ELSE PredictTry(LoadScalers(fs, cache).value, data_point, score)

\* one invocation: the loads are outside the try block, so their
\* FileNotFoundError leaves the function
PredictOutcome(fs, cache, data_point, score) ==
    IF LoadModel(fs, cache).kind = "raised"
    THEN [handed |-> <<>>, printed |-> <<>>, ret |-> LoadModel(fs, cache)]
    ELSE IF LoadScalers(fs, cache).kind = "raised"
    THEN [handed |-> <<>>, printed |-> <<>>, ret |-> LoadScalers(fs, cache)]
    ELSE PredictTry(LoadScalers(fs, cache).value, data_point, score)

\* the state of the process that predicts: its cache, the runs of the
\* trainer so far, the invocations so far, of the last invocation what was
\* handed to the scaler and what was printed, and the rows scored so far
\* with the values returned for them
PredictLocals(cache, runs, calls, handed, printed, results) ==
    [cache |-> cache, runs |-> runs, calls |-> calls, handed |-> handed,
     printed |-> printed, results |-> results]

\* a run of model_trainer.py
ModelTrainer ==
    /\ pc = "call"
    /\ call.fn = "predict_surf_quality"
    /\ frame.runs < MaxTrainerRuns
    /\ files' = Trained(files)
    /\ frame' = [frame EXCEPT !.runs = frame.runs + 1]
    /\ UNCHANGED <<clock, call, upstream, requests, ret, pc>>

PredictSurfQuality(score) ==
    /\ pc = "call"
    /\ call.fn = "predict_surf_quality"
    /\ LET out == PredictOutcome(files, frame.cache, call.data_point, score)
       IN  /\ ret' = out.ret
           /\ frame' = PredictLocals(
                          CacheAfter(files, frame.cache), frame.runs,
                          frame.calls + 1, out.handed, out.printed,
                          IF out.ret.kind = "returned"
                          THEN Append(frame.results,
                                      [data_point |-> call.data_point,
                                       value |-> out.ret.value])
                          ELSE frame.results)
    /\ pc' = "done"
    /\ UNCHANGED <<clock, call, upstream, requests, files>>

\* forecast_df.apply(lambda row: predict_surf_quality(row), axis=1): the
\* next row, unless the last invocation raised
ApplyNextRow(data_point) ==
    /\ pc = "done"
    /\ call.fn = "predict_surf_quality"
    /\ ret.kind = "returned"
    /\ frame.calls < MaxPredictCalls
    /\ call' = [call EXCEPT !.data_point = data_point]
    /\ ret' = Pending
    /\ pc' = "call"
    /\ UNCHANGED <<clock, upstream, requests, frame, files>>

---------------------------------------------------------------------------
(* The inputs the specifications draw from. *)

\* the first day of the model's calendar window: it runs over a year's end
BaseDate == <<2024, 12, 30>>
BaseDay == DayNumber(BaseDate)
T0 == 24 * BaseDay

Days == {BaseDay + d : d \in 0..MaxDays}
DateStrings == {StrFTime(CivilDate(d)) : d \in Days}

\* the first and the last hour of each day
Clocks == {24 * d + h : d \in Days, h \in {0, 23}}

\* an upstream ISO stamp of an instant
Iso(t) == [date |-> StrFTime(DateOf(t)), hour |-> t % 24]

\* n consecutive hourly stamps
TimeArray(n) == [i \in 1..n |-> Iso(T0 + i - 1)]

Floats == {Num(2), Num(Sentinel), NaN}

\* an hourly object: the variables of S each with the array a, and a time
\* array that is absent, aligned with a, or one entry short of it
HourlyOf(S, a, tk) ==
    [c \in S \cup (IF tk = "absent" THEN {} ELSE {"time"}) |->
        IF c = "time"
        THEN TimeArray(IF tk = "short" THEN Len(a) - 1 ELSE Len(a))
        ELSE a]

HourlyObjects(V, maxn) ==
    {HourlyOf(S, a, tk) :
        S \in SUBSET V,
        a \in UNION {[1..n -> Floats] : n \in 0..maxn},
        tk \in {"absent", "aligned", "short"}}
    \ {HourlyOf(S, <<>>, "short") : S \in SUBSET V}

NetErr == [kind |-> "neterr"]
HttpErr == [kind |-> "httperr"]
Json(body) == [kind |-> "json", body |-> body]

\* what a marine or weather endpoint can answer
HourlyOutcomes(V, maxn) ==
    {NetErr, HttpErr, Json([error |-> TRUE])}
    \cup {Json([hourly |-> h]) : h \in HourlyObjects(V, maxn)}

Quiet == [geocoding |-> NetErr, marine |-> NetErr, wind |-> NetErr,
          tide |-> NetErr]

Laguna == [latitude |-> 3354, longitude |-> -11778]

FetchCall(fn, start_date, end_date) ==
    [fn |-> fn, latitude |-> Laguna.latitude, longitude |-> Laguna.longitude,
     start_date |-> start_date, end_date |-> end_date]

NoFiles == [name \in {} |-> EmptyFrame]

Idle ==
    /\ requests = <<>>
    /\ files = NoFiles
    /\ frame = NoLocals
    /\ ret = Pending
    /\ pc = "call"

---------------------------------------------------------------------------
(* SpecFetch: one invocation of a source fetcher, for every date range,    *)
(* clock and upstream answer of the bounds.                                *)

InitFetch ==
    /\ clock \in Clocks
    /\ \E start_date \in DateStrings, end_date \in DateStrings :
         \/ /\ call = FetchCall("fetch_marine_data", start_date, end_date)
            /\ \E o \in HourlyOutcomes(MarineHourly, MaxRows) :
                 upstream = [Quiet EXCEPT !.marine = o]
         \/ /\ call = FetchCall("fetch_wind_data", start_date, end_date)
            /\ \E o \in HourlyOutcomes(WindHourly, MaxRows) :
                 upstream = [Quiet EXCEPT !.wind = o]
         \/ /\ call = FetchCall("fetch_tide_data", start_date, end_date)
            /\ \E o \in HourlyOutcomes(TideHourly, MaxRows) :
                 upstream = [Quiet EXCEPT !.tide = o]
    /\ Idle

NextFetch == fetch_marine_data \/ fetch_wind_data \/ fetch_tide_data

SpecFetch == InitFetch /\ [][NextFetch]_vars

---------------------------------------------------------------------------
(* SpecTide: one invocation of fetch_tide_data on an hourly sea level      *)
(* series that starts at T0, for every series of the bounds and for the    *)
(* series 1, 2, 3, 2, 1, 2, 3, with the clock before, within and after it. *)

TideFloats == {Num(1), Num(2), Num(3), Num(Sentinel), NaN}

SpecSeries == <<Num(1), Num(2), Num(3), Num(2), Num(1), Num(2), Num(3)>>

TideSeries == UNION {[1..n -> TideFloats] : n \in 0..MaxLen} \cup {SpecSeries}

TideHourlyOf(a) ==
    [c \in {"time", "sea_level_height_msl"} |->
        IF c = "time" THEN TimeArray(Len(a)) ELSE a]

InitTide ==
    /\ clock \in (T0 - 1)..(T0 + MaxLen)
    /\ call = FetchCall("fetch_tide_data", StrFTime(BaseDate),
                        StrFTime(AddDays(BaseDate, 2)))
    /\ \E a \in TideSeries :
         upstream = [Quiet EXCEPT !.tide = Json([hourly |-> TideHourlyOf(a)])]
    /\ Idle

NextTideCall == fetch_tide_data

SpecTide == InitTide /\ [][NextTideCall]_vars

---------------------------------------------------------------------------
(* SpecGeo: one invocation of geocode_location. *)

Places ==
    {[latitude |-> la, longitude |-> lo] :
        la \in {3354, 2127, -3390}, lo \in {-11778, 15120}}

LocationNames == {"Laguna Beach", "Bondi Beach", "Xyzzy"}

GeocodeOutcomes ==
    {NetErr, HttpErr, Json([generationtime_ms |-> 1])}
    \cup {Json([results |-> r]) :
            r \in UNION {[1..n -> Places] : n \in 0..MaxResults}}

InitGeo ==
    /\ clock \in {T0}
    /\ \E name \in LocationNames :
         call = [fn |-> "geocode_location", location_name |-> name]
    /\ \E o \in GeocodeOutcomes : upstream = [Quiet EXCEPT !.geocoding = o]
    /\ Idle

NextGeo == geocode_location

SpecGeo == InitGeo /\ [][NextGeo]_vars

---------------------------------------------------------------------------
(* SpecScore: one invocation of calculate_heuristic_score on a frame that  *)
(* holds the three features.                                               *)

ScoreNumbers == {0, 1, 3, 15, 30, 100, Sentinel}

ScoreInputs == {Num(v) : v \in ScoreNumbers} \cup {NaN}

ScoreCols == {"time"} \cup ScoreFeatures

ScoreRow(t, h, p, w) ==
    [c \in ScoreCols |->
        IF c = "time" THEN t
        ELSE IF c = "swell_wave_height" THEN h
        ELSE IF c = "swell_wave_period" THEN p
        ELSE w]

ScoreFrames ==
    {[cols |-> ScoreCols,
      rows |-> [i \in 1..n |-> ScoreRow(T0 + i - 1, h[i], p[i], w[i])]] :
        n \in 1..MaxScoreRows,
        h \in [1..MaxScoreRows -> ScoreInputs],
        p \in [1..MaxScoreRows -> ScoreInputs],
        w \in [1..MaxScoreRows -> ScoreInputs]}

InitScore ==
    /\ clock \in {T0}
    /\ \E df \in ScoreFrames :
         call = [fn |-> "calculate_heuristic_score", df |-> df]
    /\ upstream = Quiet
    /\ Idle

NextScore == calculate_heuristic_score

SpecScore == InitScore /\ [][NextScore]_vars

---------------------------------------------------------------------------
(* SpecCollect: one run of collect_and_save_historical_data over a range   *)
(* of zero to MaxCollectDays dates, the upstream answering each request    *)
(* with a failure, a malformed object or a table of the day.               *)

MarineReading(h, p) ==
    [c \in MarineHourly |->
        IF c = "swell_wave_height" THEN h
        ELSE IF c = "swell_wave_period" THEN p
        ELSE IF c = "wave_direction" THEN Num(90)
        ELSE Num(1)]

WindReading(w) ==
    [c \in WindHourly |-> IF c = "wind_speed_10m" THEN w ELSE Num(180)]

MarineReadings ==
    {MarineReading(Num(2), Num(10)), MarineReading(Num(Sentinel), Num(10)),
     MarineReading(Num(2), NaN)}

WindReadings == {WindReading(Num(5))}

\* the stamps of the first two hours of a date
DayStamps(date) == {[date |-> StrFTime(date), hour |-> h] : h \in {0, 1}}

\* the hourly object of the columns cols with one entry per stamp
HourlyOfRows(cols, stamps, readings) ==
    [c \in cols |->
        [i \in 1..Len(stamps) |->
            IF c = "time" THEN stamps[i] ELSE readings[i][c]]]

\* what an endpoint can answer for a date: a failure, an object without
\* 'time' or without the variable lacking, no row, one row, or the two
\* hours of the date
DayAnswers(date, V, readings, lacking) ==
    {NetErr,
     Json([hourly |-> HourlyOfRows({"time"} \cup V, <<>>, <<>>)])}
    \cup {Json([hourly |->
                HourlyOfRows({"time"} \cup V,
                             <<[date |-> StrFTime(date), hour |-> 0],
                               [date |-> StrFTime(date), hour |-> 1]>>,
                             <<rd, rd>>)]) :
            rd \in {CHOOSE r \in readings : \A c \in V : ~IsNaN(r[c]) /\ Val(r[c]) > 0}}
    \cup {Json([hourly |-> HourlyOfRows({"time"} \cup V, <<st>>, <<rd>>)]) :
            st \in DayStamps(date), rd \in readings}
    \cup {Json([hourly |-> HourlyOfRows(cols, <<st>>, <<rd>>)]) :
            cols \in {V, {"time"} \cup (V \ {lacking})},
            st \in {[date |-> StrFTime(date), hour |-> 0]},
            rd \in {CHOOSE r \in readings : \A c \in V : ~IsNaN(r[c]) /\ Val(r[c]) > 0}}

MarineDayAnswers(date) ==
    DayAnswers(date, MarineHourly, MarineReadings, "swell_wave_height")

WindDayAnswers(date) ==
    DayAnswers(date, WindHourly, WindReadings, "wind_speed_10m")

CollectGeoAnswers == {NetErr, Json([results |-> <<>>]), Json([results |-> <<Laguna>>])}

InitCollect ==
    /\ clock \in {24 * (BaseDay + 1) + 12, 24 * (BaseDay + MaxCollectDays + 1) + 12}
    /\ \E end \in BaseDay..(BaseDay + MaxCollectDays) :
         call = [fn |-> "collect_and_save_historical_data",
                 location_name |-> "Laguna Beach",
                 start_date_str |-> StrFTime(CivilDate(BaseDay + 1)),
                 end_date_str |-> StrFTime(CivilDate(end))]
    /\ upstream = Quiet
    /\ Idle

collect_start == \E o \in CollectGeoAnswers : CollectStart(o)

collect_day_marine_raises ==
    /\ pc = "loop"
    /\ \E om \in MarineDayAnswers(frame.current_date) :
         CollectDayMarineRaises(om)

collect_day_wind_raises ==
    /\ pc = "loop"
    /\ \E om \in MarineDayAnswers(frame.current_date),
          ow \in WindDayAnswers(frame.current_date) :
         CollectDayWindRaises(om, ow)

collect_day ==
    /\ pc = "loop"
    /\ \E om \in MarineDayAnswers(frame.current_date),
          ow \in WindDayAnswers(frame.current_date) :
         CollectDay(om, ow)

collect_save == CollectSave

NextCollect ==
    \/ collect_start
    \/ collect_day_marine_raises
    \/ collect_day_wind_raises
    \/ collect_day
    \/ collect_save

SpecCollect == InitCollect /\ [][NextCollect]_vars

---------------------------------------------------------------------------
(* SpecForecast: one invocation of get_surf_forecast_by_name, the three    *)
(* sources answering with a failure, a malformed object or a table whose   *)
(* stamps may repeat and come in any order; and a day of 24 marine rows    *)
(* against 22 wind rows.                                                   *)

ForecastStamps == {Iso(T0 + h) : h \in 0..2}

StampSeqs == UNION {[1..n -> ForecastStamps] : n \in 0..MaxMergeRows}

\* the 24 hours of a day, and the same without hours 3 and 17
FullDay == [i \in 1..24 |-> Iso(T0 + i - 1)]
GappyDay == SelectSeq(FullDay, LAMBDA st : st.hour \notin {3, 17})

\* a marine table with one row per stamp; the readings differ row by row
MarineTable(stamps) ==
    Json([hourly |->
            HourlyOfRows({"time"} \cup MarineHourly, stamps,
                         [i \in 1..Len(stamps) |-> MarineReading(Num(i), Num(10))])])

WindTable(stamps) ==
    Json([hourly |->
            HourlyOfRows({"time"} \cup WindHourly, stamps,
                         [i \in 1..Len(stamps) |-> WindReading(Num(i + 4))])])

\* answers that are no table of the variables V: failures, a body without
\* 'hourly', an empty 'hourly', one without 'time', one whose 'time' is
\* shorter than the variables, and one with 'time' alone
Malformed(V) ==
    {NetErr, HttpErr, Json([error |-> TRUE]),
     Json([hourly |-> HourlyOf({}, <<>>, "absent")]),
     Json([hourly |-> HourlyOf(V, <<Num(2)>>, "absent")]),
     Json([hourly |-> HourlyOf(V, <<Num(2)>>, "short")]),
     Json([hourly |-> HourlyOf({}, <<Num(2)>>, "aligned")])}

ForecastMarineAnswers ==
    Malformed(MarineHourly) \cup {MarineTable(st) : st \in StampSeqs \cup {FullDay}}

ForecastWindAnswers ==
    Malformed(WindHourly) \cup {WindTable(st) : st \in StampSeqs \cup {GappyDay}}

ForecastGeoAnswers ==
    {NetErr, HttpErr, Json([generationtime_ms |-> 1]), Json([results |-> <<>>]),
     Json([results |-> <<Laguna>>])}

InitForecast ==
    /\ clock \in {T0 + 12, T0 + 47}
    /\ call = [fn |-> "get_surf_forecast_by_name",
               location_name |-> "Laguna Beach"]
    /\ \E og \in ForecastGeoAnswers, om \in ForecastMarineAnswers,
          ow \in ForecastWindAnswers :
         upstream = [geocoding |-> og, marine |-> om, wind |-> ow,
                     tide |-> NetErr]
    /\ Idle

get_surf_forecast_by_name ==
    \E elapsed \in 0..MaxElapsed : GetSurfForecastByName(elapsed)

NextForecast == get_surf_forecast_by_name

SpecForecast == InitForecast /\ [][NextForecast]_vars

---------------------------------------------------------------------------
(* SpecPredict: the scorers.  predict_surf_quality over up to              *)
(* MaxPredictCalls rows in one process, on a disk that holds any of the    *)
(* export and the three artifacts, with model_trainer.py run in between;   *)
(* and calculate_heuristic_score on a frame that may lack features.        *)

\* a row as the callers pass it (a Series) with the features of S, and a
\* plain dict
DataPoints ==
    {[kind |-> "Series", row |-> [c \in S |-> Num(2)]] :
        S \in SUBSET Elems(PredictFeatures)}
    \cup {[kind |-> "dict", row |-> [c \in Elems(PredictFeatures) |-> Num(2)]]}

\* what the network may answer
PredictedScores == {Num(45), Num(-5)}

\* an export of n rows
CsvFrame(n) ==
    ScoredFrame([cols |-> ScoreCols,
                 rows |-> [i \in 1..n |->
                     ScoreRow(T0 + i - 1, Num(i), Num(15), Num(30))]]).value.df

\* the disks: the export absent or of 0..MaxCsvRows rows, and any of the
\* artifacts as a run of the trainer writes them
Disks ==
    {[n \in S |->
        IF n = OutputFile THEN csv
        ELSE IF n = ScalerYFile THEN [features |-> TrainerTarget]
        ELSE [features |-> TrainerFeatures]] :
        S \in SUBSET (Artifacts \cup {OutputFile}),
        csv \in {CsvFrame(n) : n \in 0..MaxCsvRows}}

\* frames of one row with the features of S
FeatureFrames ==
    {[cols |-> {"time"} \cup S,
      rows |-> <<[c \in {"time"} \cup S |-> IF c = "time" THEN T0 ELSE Num(2)]>>] :
        S \in SUBSET ScoreFeatures}

InitPredict ==
    /\ clock = T0
    /\ upstream = Quiet
    /\ requests = <<>>
    /\ ret = Pending
    /\ pc = "call"
    /\ frame = PredictLocals(NoCache, 0, 0, <<>>, <<>>, <<>>)
    /\ \/ /\ \E dp \in DataPoints :
                call = [fn |-> "predict_surf_quality", data_point |-> dp]
          /\ files \in Disks
       \/ /\ \E df \in FeatureFrames :
                call = [fn |-> "calculate_heuristic_score", df |-> df]
          /\ files = NoFiles

model_trainer == ModelTrainer

predict_surf_quality == \E score \in PredictedScores : PredictSurfQuality(score)

apply_next_row == \E dp \in DataPoints : ApplyNextRow(dp)

NextPredict ==
    \/ model_trainer
    \/ predict_surf_quality
    \/ apply_next_row
    \/ calculate_heuristic_score

SpecPredict == InitPredict /\ [][NextPredict]_vars

---------------------------------------------------------------------------
(* SpecCore: one invocation of any function of the core that asks the      *)
(* upstream: the geocoder, a source fetcher or the facade.                 *)

InitCore == InitFetch \/ InitGeo \/ InitForecast

NextCore == NextFetch \/ NextGeo \/ NextForecast

SpecCore == InitCore /\ [][NextCore]_vars

---------------------------------------------------------------------------
(* Claims about the fetchers' endpoints and failures (SpecFetch). *)

Done(fn) == pc = "done" /\ call.fn = fn

\* the day number of a 'YYYY-MM-DD' argument and of the clock's date
DayOfString(s) == DayNumber(StrPTime(s))
Today == clock \div 24

\* C1: every call of fetch_wind_data with start_date <= end_date issues a
\* single request; it goes to the archive endpoint when end_date < today and
\* to the forecast endpoint when start_date >= today.
C1_WindEndpointByDate ==
    (Done("fetch_wind_data")
        /\ DayOfString(call.start_date) <= DayOfString(call.end_date))
    => /\ Len(requests) = 1
       /\ requests[1].params.start_date = call.start_date
       /\ requests[1].params.end_date = call.end_date
       /\ DayOfString(call.end_date) < Today
            => requests[1].url = HISTORICAL_WEATHER_API_URL
       /\ DayOfString(call.start_date) >= Today
            => requests[1].url = WEATHER_API_URL

\* C1 witness: a past range was fetched from the archive endpoint, on a day
\* after a year's end.
C1_Witness ==
    /\ Done("fetch_wind_data")
    /\ DayOfString(call.start_date) < DayOfString(call.end_date)
    /\ DayOfString(call.end_date) < Today
    /\ StrPTime(call.end_date)[1] < DateOf(clock)[1]
    /\ requests = <<WindRequest(call, clock)>>
    /\ requests[1].url = HISTORICAL_WEATHER_API_URL

\* C2 (as amended): fetch_tide_data does not choose its endpoint by date: for
\* every start_date, before today or not, its single request goes to the
\* marine endpoint.
C2_TideEndpointFixed ==
    Done("fetch_tide_data")
    => /\ Len(requests) = 1
       /\ requests[1].url = MARINE_API_URL
       /\ requests[1].params.hourly = <<"sea_level_height_msl">>

\* C2 witness: a tide call whose start_date is before today went to the
\* marine endpoint.
C2_Witness ==
    /\ Done("fetch_tide_data")
    /\ DayOfString(call.start_date) < Today
    /\ requests[1].url = MARINE_API_URL

\* C2 as stated: the tide fetcher queries the archive endpoint when
\* start_date < today and a forecast endpoint otherwise.
C2_TideEndpointByDate ==
    Done("fetch_tide_data")
    => /\ Len(requests) = 1
       /\ DayOfString(call.start_date) < Today
            => requests[1].url = HISTORICAL_WEATHER_API_URL
       /\ DayOfString(call.start_date) >= Today
            => requests[1].url \in {WEATHER_API_URL, MARINE_API_URL}

\* the answer of the source the invocation asked
Answer ==
    IF call.fn = "fetch_marine_data" THEN upstream.marine
    ELSE IF call.fn = "fetch_wind_data" THEN upstream.wind
    ELSE upstream.tide

\* the hourly variables the invocation asked for
Asked ==
    IF call.fn = "fetch_marine_data" THEN MarineHourly
    ELSE IF call.fn = "fetch_wind_data" THEN WindHourly
    ELSE TideHourly

\* the upstream outcomes C3 is about: a failure, no 'hourly' object, or an
\* 'hourly' object without 'time' or without a variable asked for
C3_BadAnswer ==
    \/ Failed(Answer)
    \/ "hourly" \notin DOMAIN Answer.body
    \/ ~(({"time"} \cup Asked) \subseteq DOMAIN Answer.body.hourly)

\* the no-data value of the invocation's fetcher
NoData == IF call.fn = "fetch_tide_data" THEN None ELSE Frame(EmptyFrame)

\* C3: on a failed request, an answer without 'hourly', or an 'hourly' object
\* that lacks 'time' or a requested variable, each fetcher returns its
\* no-data value and raises nothing.
C3_FetchersNeverRaise ==
    (pc = "done" /\ C3_BadAnswer) => ret = Returned(NoData)

---------------------------------------------------------------------------
(* Claims about the geocoder (SpecGeo). *)

\* the 'results' list of the geocoding answer, <<>> when there is none
GeoResults ==
    IF ~Failed(upstream.geocoding) /\ "results" \in DOMAIN upstream.geocoding.body
    THEN upstream.geocoding.body.results
    ELSE <<>>

\* C4: geocode_location never raises; it returns None when the request
\* fails or the result list is missing or empty, and the latitude and
\* longitude of the first result when the list is not empty.
C4_GeocodeNotFoundOrFirst ==
    Done("geocode_location")
    => /\ ret.kind = "returned"
       /\ GeoResults = <<>> => ret.value = None
       /\ GeoResults # <<>>
            => /\ ret.value.type = "dict"
               /\ DOMAIN ret.value.items = {"latitude", "longitude"}
               /\ ret.value.items.latitude = GeoResults[1].latitude
               /\ ret.value.items.longitude = GeoResults[1].longitude

\* C4 witness: of two different results the first was returned.
C4_Witness ==
    /\ Done("geocode_location")
    /\ Len(GeoResults) = 2
    /\ GeoResults[1].latitude # GeoResults[2].latitude
    /\ GeoResults[1].longitude # GeoResults[2].longitude
    /\ ret = Returned(Dict(GeoResults[1]))

---------------------------------------------------------------------------
(* Claims about the heuristic scorer (SpecScore). *)

\* the rows handed to the scorer and the rows it returned
InRows == call.df.rows
OutRows == ret.value.df.rows

Scored == Done("calculate_heuristic_score") /\ ret.kind = "returned"

\* whether the three features of a row are numbers
Numeric(row) == \A c \in ScoreFeatures : ~IsNaN(row[c])

\* whether a row holds the features h, p, w
Holds(row, h, p, w) ==
    /\ row["swell_wave_height"] = Num(h)
    /\ row["swell_wave_period"] = Num(p)
    /\ row["wind_speed_10m"] = Num(w)

\* C6: every row's wave_quality_score lies in [1, 10]; height 100, period
\* 100, wind 0 scores 10 and height 0, period 0, wind 100 scores 1.
C6_ScoreWithinOneToTen ==
    Scored
    => \A i \in 1..Len(OutRows) :
         LET score == OutRows[i]["wave_quality_score"]
         IN  /\ ~IsNaN(score)
             /\ 10 <= Val(score)
             /\ Val(score) <= 100
             /\ Holds(InRows[i], 100, 100, 0) => Val(score) = 100
             /\ Holds(InRows[i], 0, 0, 100) => Val(score) = 10

Min2(a, b) == IF a <= b THEN a ELSE b
Max2(a, b) == IF a >= b THEN a ELSE b

\* the reference formula of C7 in thirtieths: each feature capped (3, 15,
\* 30), divided by its cap and scaled to 0..10, weighted 0.5, 0.4, -0.1
Reference30(row) ==
    50 * Min2(Val(row["swell_wave_height"]), 3)
    + 8 * Min2(Val(row["swell_wave_period"]), 15)
    - Min2(Val(row["wind_speed_10m"]), 30)

With(row, c, v) == [row EXCEPT ![c] = Num(v)]

\* C8: with the other two features fixed the score does not decrease when
\* swell_wave_height or swell_wave_period grows and does not increase when
\* wind_speed_10m grows.
C8_ScoreMonotone ==
    Scored
    => \A i \in 1..Len(OutRows) :
         Numeric(InRows[i])
         => LET row == InRows[i]
                score == Val(OutRows[i]["wave_quality_score"])
            IN  \A v \in ScoreNumbers :
                  /\ v >= Val(row["swell_wave_height"])
                       => Val(HeuristicScore10(With(row, "swell_wave_height", v)))
                            >= score
                  /\ v >= Val(row["swell_wave_period"])
                       => Val(HeuristicScore10(With(row, "swell_wave_period", v)))
                            >= score
                  /\ v >= Val(row["wind_speed_10m"])
                       => Val(HeuristicScore10(With(row, "wind_speed_10m", v)))
                            <= score

\* C8 witness: a scored row for which more wind gives a strictly lower score
\* and more height a strictly higher one.
C8_Witness ==
    /\ Scored
    /\ Numeric(InRows[1])
    /\ Val(HeuristicScore10(With(InRows[1], "wind_speed_10m", 100)))
         < Val(OutRows[1]["wave_quality_score"])
    /\ Val(HeuristicScore10(With(InRows[1], "swell_wave_height", 100)))
         > Val(OutRows[1]["wave_quality_score"])

---------------------------------------------------------------------------
(* Claims about the tide extremum search (SpecTide). *)

\* the sea level array the upstream delivered; its sample i is at T0 + i - 1
Series == upstream.tide.body.hourly["sea_level_height_msl"]

\* the hours (from T0) of the rows of a frame
HoursOf(rows) == {rows[k]["time"] - T0 : k \in 1..Len(rows)}

\* a reading that is there: neither null nor the sentinel
Present(x) == ~IsNaN(x) /\ Val(x) # Sentinel

\* the samples with a complete window of three readings
Interior(a) ==
    {i \in 2..(Len(a) - 1) :
        Present(a[i - 1]) /\ Present(a[i]) /\ Present(a[i + 1])}

\* the instants of the local maxima and minima of a series
MaximaAt(a) ==
    {T0 + i - 1 : i \in {j \in Interior(a) :
        Val(a[j]) >= Val(a[j - 1]) /\ Val(a[j]) >= Val(a[j + 1])}}
MinimaAt(a) ==
    {T0 + i - 1 : i \in {j \in Interior(a) :
        Val(a[j]) <= Val(a[j - 1]) /\ Val(a[j]) <= Val(a[j + 1])}}

\* C9 as stated: for 1, 2, 3, 2, 1, 2, 3 at hours 0..6 the local maxima are
\* exactly hours 2 and 6 and the local minima exactly hour 4.
C9_SpecSeriesMaximaTwoAndSix ==
    (Done("fetch_tide_data") /\ Series = SpecSeries)
    => /\ HoursOf(frame.high_tides) = {2, 6}
       /\ HoursOf(frame.low_tides) = {4}

\* C9 (as amended): for 1, 2, 3, 2, 1, 2, 3 at hours 0..6 the classification
\* marks exactly hour 2 as local maximum (hour 6, the last sample, has no
\* complete window and is not marked) and exactly hour 4 as local minimum.
C9_SpecSeriesMaximumTwoOnly ==
    (Done("fetch_tide_data") /\ Series = SpecSeries)
    => /\ HoursOf(frame.high_tides) = {2}
       /\ HoursOf(frame.low_tides) = {4}
       /\ Len(frame.high_tides) = 1
       /\ Len(frame.low_tides) = 1

\* C9 witness: the series of the claim was classified.
C9_Witness ==
    /\ Done("fetch_tide_data")
    /\ Series = SpecSeries
    /\ Len(Series) = 7
    /\ frame.high_tides # <<>>
    /\ frame.low_tides # <<>>

\* the smallest instant of a non-empty set
Earliest(S) == CHOOSE t \in S : \A u \in S : t <= u

\* what C10 says of one selection: it is the earliest of the extrema that are
\* strictly after now, and the result reports that sample
C10_EarliestAfterNow(extrema, selected, key) ==
    selected # <<>>
    => LET later == {t \in extrema : t > clock}
           t == selected[1]["time"]
       IN  /\ later # {}
           /\ t = Earliest(later)
           /\ t > clock
           /\ selected[1]["sea_level_height_msl"] = Series[t - T0 + 1]
           /\ ret.kind = "returned"
           /\ ret.value.type = "dict"
           /\ key \in DOMAIN ret.value.items
           /\ ret.value.items[key].height_m = Series[t - T0 + 1]
           /\ ret.value.items[key].time.hour = (t - T0) % 24

\* C10: next_high_tide (next_low_tide) is the local maximum (minimum) with
\* the smallest timestamp strictly after now, also on a plateau; for
\* 1, 2, 3, 2, 1, 2, 3 at hours 0..6 and now = hour 1 they are hours 2 and 4.
C10_NextTideIsEarliestAfterNow ==
    Done("fetch_tide_data")
    => /\ C10_EarliestAfterNow(MaximaAt(Series), frame.next_high_tide,
                               "next_high_tide")
       /\ C10_EarliestAfterNow(MinimaAt(Series), frame.next_low_tide,
                               "next_low_tide")
       /\ (Series = SpecSeries /\ clock = T0 + 1)
            => /\ HoursOf(frame.next_high_tide) = {2}
               /\ HoursOf(frame.next_low_tide) = {4}

\* C10 witness: on a plateau of two equal maxima after now, with an earlier
\* maximum at or before now, the first plateau sample was selected.
C10_Witness ==
    /\ Done("fetch_tide_data")
    /\ \E t \in MaximaAt(Series) :
         /\ t > clock
         /\ t + 1 \in MaximaAt(Series)
         /\ Series[t - T0 + 1] = Series[t - T0 + 2]
         /\ frame.next_high_tide # <<>>
         /\ frame.next_high_tide[1]["time"] = t
    /\ \E u \in MaximaAt(Series) : u <= clock

\* the fields of the returned dictionary (none when None was returned)
TideFields ==
    IF ret.kind = "returned" /\ ret.value.type = "dict"
    THEN DOMAIN ret.value.items ELSE {}

\* the local maxima and minima of the delivered series strictly after now
LaterMaxima == {t \in MaximaAt(Series) : t > clock}
LaterMinima == {t \in MinimaAt(Series) : t > clock}

\* C11: the result of fetch_tide_data has the field next_high_tide exactly
\* when some local maximum lies strictly after now, and next_low_tide exactly
\* when some local minimum does; a field that is there holds a real reading,
\* never a null; and when neither qualifies the function returns None, never
\* an empty dictionary.
C11_TideFieldPresentIffQualifying ==
    Done("fetch_tide_data")
    => /\ ret.kind = "returned"
       /\ ("next_high_tide" \in TideFields) <=> (LaterMaxima # {})
       /\ ("next_low_tide" \in TideFields) <=> (LaterMinima # {})
       /\ \A k \in TideFields : ~IsNaN(ret.value.items[k].height_m)
       /\ (LaterMaxima = {} /\ LaterMinima = {}) <=> (ret.value.type = "None")
       /\ ret.value.type = "dict" => TideFields # {}

\* C11 witness: a maximum after now and no minimum after now; the result
\* has next_high_tide and lacks next_low_tide.
C11_Witness ==
    /\ Done("fetch_tide_data")
    /\ LaterMaxima # {}
    /\ LaterMinima = {}
    /\ MinimaAt(Series) # {}
    /\ TideFields = {"next_high_tide"}

---------------------------------------------------------------------------
(* Claims about the merge of the facade (SpecForecast). *)

\* the facade returned a table
Forecast == Done("get_surf_forecast_by_name") /\ ret.kind = "returned"

\* the facade got two non-empty tables and merged them
Merged == Forecast /\ ~IsEmpty(frame.marine_data) /\ ~IsEmpty(frame.wind_data)

\* the timestamps of a table, and whether none occurs twice
Times(df) == {df.rows[i]["time"] : i \in 1..Len(df.rows)}
UniqueTimes(df) == Cardinality(Times(df)) = Len(df.rows)

\* the timestamps present in both fetched tables
Common == Times(frame.marine_data) \cap Times(frame.wind_data)

\* the rows of a table at the time t, in the table's order
RowsAt(df, t) == SelectSeq(df.rows, LAMBDA r : r["time"] = t)

\* C12: when the marine and the wind table each have unique timestamps, the
\* inner merge has exactly one row per timestamp present in both, made of
\* the two rows of that timestamp, and no other row: its row count is the
\* size of the intersection (24 marine rows and 22 wind rows whose hours are
\* among them give 22 rows).
C12_InnerMergeOneRowPerCommonTime ==
    (Merged /\ UniqueTimes(frame.marine_data) /\ UniqueTimes(frame.wind_data))
    => LET merged == ret.value.df
       IN  /\ Len(merged.rows) = Cardinality(Common)
           /\ Times(merged) = Common
           /\ \A i \in 1..Len(merged.rows) :
                LET t == merged.rows[i]["time"]
                IN  merged.rows[i]
                      = JoinRow(RowsAt(frame.marine_data, t)[1],
                                RowsAt(frame.wind_data, t)[1])
           /\ (Len(frame.marine_data.rows) = 24
                 /\ Len(frame.wind_data.rows) = 22
                 /\ Times(frame.wind_data) \subseteq Times(frame.marine_data))
                => Len(merged.rows) = 22

\* C12 witness: 24 marine rows were merged with 22 wind rows of the same day
\* into 22 rows.
C12_Witness ==
    /\ Merged
    /\ Len(frame.marine_data.rows) = 24
    /\ Len(frame.wind_data.rows) = 22
    /\ UniqueTimes(frame.marine_data)
    /\ UniqueTimes(frame.wind_data)
    /\ Len(ret.value.df.rows) = 22

\* the rows of the outer join at one key: the pairs of the rows of both
\* sides (left-major), or the rows of the one side that has the key, NaN in
\* the columns of the other
OuterAt(left, right, t) ==
    LET l == RowsAt(left, t)
        r == RowsAt(right, t)
        cols == left.cols \cup right.cols
    IN  IF l = <<>> THEN [i \in 1..Len(r) |-> Widen(r[i], cols)]
        ELSE IF r = <<>> THEN [i \in 1..Len(l) |-> Widen(l[i], cols)]
        ELSE [k \in 1..(Len(l) * Len(r)) |->
                JoinRow(l[((k - 1) \div Len(r)) + 1], r[((k - 1) % Len(r)) + 1])]

RECURSIVE OuterRows(_, _, _)
\* the rows of the outer join for the keys of the set keys, in ascending
\* order of the key
OuterRows(left, right, keys) ==
    IF keys = {} THEN <<>>
    ELSE LET t == Earliest(keys)
         IN  OuterAt(left, right, t) \o OuterRows(left, right, keys \ {t})

\* pd.merge(left, right, on='time', how='outer'): the union of the keys,
\* sorted
OuterJoin(left, right) ==
    [cols |-> left.cols \cup right.cols,
     rows |-> OuterRows(left, right, Times(left) \cup Times(right))]

\* the rows of an outer join whose timestamp occurs in both inputs
OuterThenFilter(left, right) ==
    [cols |-> left.cols \cup right.cols,
     rows |-> SelectSeq(OuterJoin(left, right).rows,
                        LAMBDA r : r["time"] \in Times(left) \cap Times(right))]

\* how often a row occurs in a sequence of rows
Count(rows, x) == Cardinality({i \in 1..Len(rows) : rows[i] = x})

\* the same rows, each as many times
SameRows(a, b) ==
    \A x \in {a[i] : i \in 1..Len(a)} \cup {b[i] : i \in 1..Len(b)} :
        Count(a, x) = Count(b, x)

\* the rows of a table are in strictly ascending order of time
Ascending(df) ==
    \A i, j \in 1..Len(df.rows) :
        i < j => df.rows[i]["time"] < df.rows[j]["time"]

\* C13: the outer join of the two fetched tables, restricted to the rows
\* whose timestamp occurs in both of them, is the table the program's inner
\* merge gives: the same columns and the same rows, each as many times, and
\* in the same order when the marine table is in ascending order of time
\* and neither table repeats a timestamp.
C13_OuterThenFilterIsInner ==
    Merged
    => LET round == OuterThenFilter(frame.marine_data, frame.wind_data)
       IN  /\ ret.value.df.cols = round.cols
           /\ SameRows(ret.value.df.rows, round.rows)
           /\ Len(ret.value.df.rows) = Len(round.rows)
           /\ (Ascending(frame.marine_data) /\ UniqueTimes(frame.wind_data))
                => ret.value.df = round

\* C13 witness: each table has a timestamp the other lacks, so the outer
\* join has rows that the filter removes, and one they share.
C13_Witness ==
    /\ Merged
    /\ Times(frame.marine_data) \ Times(frame.wind_data) # {}
    /\ Times(frame.wind_data) \ Times(frame.marine_data) # {}
    /\ Common # {}
    /\ Len(OuterJoin(frame.marine_data, frame.wind_data).rows)
         > Len(ret.value.df.rows)
    /\ ret.value.df.rows # <<>>

\* C14: every merged table the facade returns has strictly increasing
\* timestamps and no timestamp twice, whatever the two fetched tables are.
C14_MergedTimesStrictlyIncreasing ==
    Merged => Ascending(ret.value.df)

---------------------------------------------------------------------------
(* Claims about the facade's outcomes and the upstream requests            *)
(* (SpecForecast, SpecCore).                                               *)

\* geocoding gave no coordinates
NotFound == GeocodeReturn(upstream.geocoding).value = None

\* the requests sent to the url u
Sent(u) == SelectSeq(requests, LAMBDA r : r.url = u)

\* what C18 says of a returned table: the empty table after a not-found
\* geocoding, with the geocoding request alone; an empty table when a fetch
\* gave an empty table; otherwise rows that each join a marine row and a
\* wind row of the same time
C18_NoDataOrMerged ==
    /\ ret.value.type = "DataFrame"
    /\ NotFound
         => /\ ret.value.df = EmptyFrame
            /\ requests = <<GeocodeRequest(call.location_name)>>
    /\ (IsEmpty(frame.marine_data) \/ IsEmpty(frame.wind_data))
         => ret.value.df = EmptyFrame
    /\ \A i \in 1..Len(ret.value.df.rows) :
         LET row == ret.value.df.rows[i]
         IN  /\ RowsAt(frame.marine_data, row["time"]) # <<>>
             /\ RowsAt(frame.wind_data, row["time"]) # <<>>
             /\ DOMAIN row = frame.marine_data.cols \cup frame.wind_data.cols

\* C18: get_surf_forecast_by_name always returns, and what it returns is a
\* non-empty merged forecast or the empty table and nothing else: the empty
\* table when geocoding finds nothing (and then no marine or wind request is
\* issued) or when a fetch is empty, never a table built from one source.
C18_ForecastReturnsMergedOrNoData ==
    Done("get_surf_forecast_by_name")
    => /\ ret.kind = "returned"
       /\ C18_NoDataOrMerged

\* whenever the facade does return, it returns what C18 says
ReturnedForecastIsMergedOrNoData == Forecast => C18_NoDataOrMerged

\* C19: no upstream call is repeated: an invocation of geocode_location,
\* fetch_marine_data, fetch_wind_data or fetch_tide_data issues at most one
\* request whatever the answer, and an invocation of
\* get_surf_forecast_by_name at most one geocoding, one marine and one wind
\* request, in that order.
C19_NoRetry ==
    /\ call.fn \in {"geocode_location", "fetch_marine_data",
                     "fetch_wind_data", "fetch_tide_data"}
         => /\ Len(requests) <= 1
            /\ pc = "done" => Len(requests) = 1
    /\ call.fn = "get_surf_forecast_by_name"
         => /\ Len(Sent(GEOCODING_API_URL)) <= 1
            /\ Len(Sent(MARINE_API_URL)) <= 1
            /\ Len(Sent(WEATHER_API_URL))
                 + Len(Sent(HISTORICAL_WEATHER_API_URL)) <= 1
            /\ Len(requests) <= 3

\* C19 witness: the marine endpoint failed during a forecast; the facade
\* went on to the wind request and ended with three requests in all.
C19_Witness ==
    /\ Done("get_surf_forecast_by_name")
    /\ Failed(upstream.marine)
    /\ ~NotFound
    /\ Len(requests) = 3
    /\ Len(Sent(MARINE_API_URL)) = 1

---------------------------------------------------------------------------
(* Claims about the scorers (SpecPredict). *)

\* the artifacts that are not on the disk
Absent == Artifacts \ DOMAIN files

\* the invocation yielded a score
GotScore == ret.kind = "returned" /\ ret.value.type = "float"

\* C15: what predict_surf_quality hands to the scaler has exactly the
\* features, in the same order, that the scaler and the model loaded were
\* fitted on by model_trainer.py.
C15_HandedFeaturesAreTrainedFeatures ==
    (Done("predict_surf_quality") /\ frame.handed # <<>>)
    => /\ frame.handed[1] = frame.cache.scalers[1].scaler_X.features
       /\ frame.handed[1] = frame.cache.model[1].features

\* C16: when the model file or either scaler file is absent,
\* predict_surf_quality raises FileNotFoundError to its caller: it yields no
\* score, hands nothing to a scaler and returns no value at all.
C16_AbsentArtifactRaises ==
    (Done("predict_surf_quality") /\ Absent # {})
    => /\ ret = Raised("FileNotFoundError")
       /\ ~GotScore
       /\ frame.handed = <<>>

\* C16 witness: the model is on the disk and a scaler is not; a row with
\* every feature was refused with the error.
C16_Witness ==
    /\ Done("predict_surf_quality")
    /\ Absent = {ScalerYFile}
    /\ call.data_point.kind = "Series"
    /\ MissingOf(call.data_point) = {}
    /\ ret.kind = "raised"

\* the row given to predict_surf_quality, a Series, lacks a feature
PredictLacks ==
    /\ Done("predict_surf_quality")
    /\ call.data_point.kind = "Series"
    /\ MissingOf(call.data_point) # {}

\* the frame given to calculate_heuristic_score lacks a feature
HeuristicLacks ==
    /\ Done("calculate_heuristic_score")
    /\ ~(ScoreFeatures \subseteq call.df.cols)

\* C17 as stated: scoring a row that lacks a feature raises to the caller an
\* error that names the absent features, for both scorers.
C17_MissingFeatureRaisesNamingIt ==
    /\ PredictLacks
         => /\ ret.kind = "raised"
            /\ "key" \in DOMAIN ret
            /\ ret.key \in MissingOf(call.data_point)
    /\ HeuristicLacks
         => /\ ret.kind = "raised"
            /\ "key" \in DOMAIN ret
            /\ ret.key \in ScoreFeatures \ call.df.cols

\* C17 (as amended): a row that lacks a feature is never scored.
\* calculate_heuristic_score raises KeyError naming the first feature, in
\* the order height, period, wind, that the frame lacks.
\* predict_surf_quality raises nothing for it: with the artifacts loaded it
\* prints a message naming every absent feature and returns None, and with
\* an artifact absent it raises FileNotFoundError.
C17_MissingFeatureNeverScored ==
    /\ HeuristicLacks
         => /\ ret.kind = "raised"
            /\ ret.exc = "KeyError"
            /\ ret.key \in ScoreFeatures \ call.df.cols
            /\ \A i, j \in 1..Len(ScoreTerms) :
                 (ScoreTerms[j] = ret.key /\ i < j)
                 => ScoreTerms[i] \in call.df.cols
    /\ PredictLacks
         => /\ ~GotScore
            /\ frame.handed = <<>>
            /\ Absent # {} => ret = Raised("FileNotFoundError")
            /\ Absent = {}
                 => /\ ret = Returned(None)
                    /\ Len(frame.printed) = 2
                    /\ frame.printed[2] = MissingOf(call.data_point)

\* C17 witness: with the three artifacts on the disk, a row without
\* sea_level_height_msl was given to predict_surf_quality, which returned
\* None.
C17_Witness ==
    /\ PredictLacks
    /\ Absent = {}
    /\ MissingOf(call.data_point) = {"sea_level_height_msl"}
    /\ ret = Returned(None)

---------------------------------------------------------------------------
(* Claims about the pipelines (SpecCollect). *)

\* the frames the collector has handed to calculate_heuristic_score so far:
\* the merged frame of every pass that scored, as kept in all_data
ScoredFrames ==
    IF "all_data" \in DOMAIN frame THEN frame.all_data ELSE <<>>

\* C5: a -999 in a fetched hourly series is replaced by the absent marker
\* before it reaches a scoring function: no row the batch collector scores
\* holds -999 as the value of a feature.
C5_NoSentinelReachesScorer ==
    (call.fn = "collect_and_save_historical_data")
    => \A k \in 1..Len(ScoredFrames) :
         \A i \in 1..Len(ScoredFrames[k].rows) :
           \A c \in ScoreFeatures :
             ScoredFrames[k].rows[i][c] # Num(Sentinel)

\* the export, once written
Exported == OutputFile \in DOMAIN files

\* the variables the collector asks the two endpoints for
FetchedVariables == MarineHourly \cup WindHourly

---------------------------------------------------------------------------
(* Claims about absent inputs of the heuristic scorer (SpecScore). *)

\* C21: a row in which swell_wave_height, swell_wave_period or
\* wind_speed_10m is absent gets no numeric wave_quality_score from
\* calculate_heuristic_score: its score is absent too, never the 0 of the
\* lower clamp.
C21_AbsentInputNotScored ==
    Scored
    => \A i \in 1..Len(OutRows) :
         ~Numeric(InRows[i]) => IsNaN(OutRows[i]["wave_quality_score"])

---------------------------------------------------------------------------
(* Claims about the window of the tide extremum search (SpecTide). *)

\* the sample of a row of the delivered series: its index
SampleOf(row) == row["time"] - T0 + 1

\* the sample i has a previous, a current and a next value, all present
FullWindow(i) ==
    /\ 1 < i
    /\ i < Len(Series)
    /\ \A j \in {i - 1, i, i + 1} : Present(Series[j])

\* C22: fetch_tide_data reports a sample as high or low tide only if its
\* previous, current and next hourly values are all present: the first and
\* the last sample, a sample next to an absent value (-999 or missing) and
\* an absent sample are in neither the maxima nor the minima, nor in the
\* result.
C22_ExtremaHaveFullWindow ==
    Done("fetch_tide_data")
    => /\ \A k \in 1..Len(frame.high_tides) :
            FullWindow(SampleOf(frame.high_tides[k]))
       /\ \A k \in 1..Len(frame.low_tides) :
            FullWindow(SampleOf(frame.low_tides[k]))
       /\ \A k \in 1..Len(frame.next_high_tide) :
            FullWindow(SampleOf(frame.next_high_tide[k]))
       /\ \A k \in 1..Len(frame.next_low_tide) :
            FullWindow(SampleOf(frame.next_low_tide[k]))

\* C22 witness: a sample that tops its present neighbour but sits next to a
\* -999, and the last sample, were left out, while a maximum with a full
\* window was reported.
C22_Witness ==
    /\ Done("fetch_tide_data")
    /\ frame.high_tides # <<>>
    /\ \E i \in 2..(Len(Series) - 1) :
         /\ Present(Series[i])
         /\ Present(Series[i - 1])
         /\ Series[i + 1] = Num(Sentinel)
         /\ Val(Series[i]) > Val(Series[i - 1])
         /\ (i - 1) \notin HoursOf(frame.high_tides)
    /\ (Len(Series) - 1) \notin HoursOf(frame.high_tides)

---------------------------------------------------------------------------
(* Claims about a date range that straddles today (SpecFetch). *)

\* the range of the call begins before today and ends today or later
Straddles ==
    /\ DayOfString(call.start_date) < Today
    /\ Today <= DayOfString(call.end_date)

\* C23: for a range that straddles today fetch_wind_data does not split the
\* range: it issues exactly one request, to the historical endpoint, with
\* the whole range start_date..end_date, and none to the forecast endpoint.
C23_StraddlingRangeOneHistoricalRequest ==
    (Done("fetch_wind_data") /\ Straddles)
    => /\ Len(requests) = 1
       /\ requests[1].url = HISTORICAL_WEATHER_API_URL
       /\ requests[1].params.start_date = call.start_date
       /\ requests[1].params.end_date = call.end_date
       /\ \A k \in 1..Len(requests) : requests[k].url # WEATHER_API_URL

\* C23 witness: a range from before today to after today was fetched in one
\* request.
C23_Witness ==
    /\ Done("fetch_wind_data")
    /\ Straddles
    /\ Today < DayOfString(call.end_date)
    /\ Len(requests) = 1

---------------------------------------------------------------------------
(* Claims about scoring a table row by row (SpecPredict). *)

\* the rows scored so far by the apply, each with the value it got
Results == IF "results" \in DOMAIN frame THEN frame.results ELSE <<>>

\* a row that is a Series and lacks a feature; a row that has them all
Lacking(dp) == dp.kind = "Series" /\ MissingOf(dp) # {}
Complete(dp) == dp.kind = "Series" /\ MissingOf(dp) = {}

FailedRowDoesNotStopApply ==
    (Done("predict_surf_quality") /\ Lacking(call.data_point) /\ Absent = {})
    => /\ ret = Returned(None)
       /\ Len(Results) = frame.calls

---------------------------------------------------------------------------
(* Claims about the loop of the batch collector (SpecCollect). *)

Collecting == call.fn = "collect_and_save_historical_data"

\* the passes of the loop begun so far: each begins with a marine request
Passes == Len(Sent(MARINE_API_URL))

\* the delays slept so far
Sleeps == IF "sleeps" \in DOMAIN frame THEN frame.sleeps ELSE 0

\* C25: a delay follows the fetches of every date, on every path through the
\* loop body, before the fetches of the next date begin: whenever the loop
\* is about to fetch, every pass begun so far has been followed by its
\* delay, and at no time is more than one pass without it.
C25_DelayBetweenDates ==
    Collecting
    => /\ pc = "loop" => Passes = Sleeps
       /\ Passes <= Sleeps + 1
       /\ Sleeps <= Passes

\* C25 witness: two dates were fetched, one collected and one skipped, and
\* each was followed by a delay.
C25_Witness ==
    /\ Collecting
    /\ pc = "done"
    /\ Passes = 2
    /\ Sleeps = 2
    /\ Len(frame.all_data) = 1

\* the number of dates from start_date to end_date inclusive
DatesAsked ==
    LET n == DayOfString(call.end_date_str) - DayOfString(call.start_date_str) + 1
    IN  IF n > 0 THEN n ELSE 0

\* the frames the passes have contributed
Contributed == IF "all_data" \in DOMAIN frame THEN frame.all_data ELSE <<>>

\* what C26 says of a finished run
C26_RunComplete ==
    IF NotFound
    THEN /\ requests = <<GeocodeRequest(call.location_name)>>
         /\ ~Exported
    ELSE /\ Passes = DatesAsked
         /\ \A k \in 1..Passes :
              LET day == StrFTime(CivilDate(DayOfString(call.start_date_str) + k - 1))
              IN  /\ Sent(MARINE_API_URL)[k].params.start_date = day
                  /\ Sent(MARINE_API_URL)[k].params.end_date = day
         /\ Len(requests) = 1 + 2 * Passes
         /\ Exported <=> (Contributed # <<>>)

\* C26: a run of collect_and_save_historical_data ends having visited every
\* date from start_date to end_date once, in ascending order (none when
\* start_date > end_date), a day without data being skipped and the later
\* days still visited; the output file is written if and only if some day
\* contributed rows; and when geocoding fails no fetch is issued and no file
\* is written.
C26_VisitsEveryDateOnceAndWritesIffRows ==
    (Collecting /\ pc = "done") => C26_RunComplete

\* a run that no error left does what C26 says
RunWithoutErrorIsComplete ==
    (Collecting /\ pc = "done" /\ ret.kind = "returned") => C26_RunComplete

---------------------------------------------------------------------------
(* Claims about the two readings of the clock in a forecast (SpecForecast). *)

\* the wind requests of the invocation
WindSent == Sent(WEATHER_API_URL) \o Sent(HISTORICAL_WEATHER_API_URL)

\* C27: the wind request of get_surf_forecast_by_name goes to the forecast
\* endpoint, never to the historical one, also when the date advances
\* between the facade's reading of the clock and fetch_wind_data's.
C27_ForecastWindRequestToForecastEndpoint ==
    Done("get_surf_forecast_by_name")
    => \A k \in 1..Len(WindSent) : WindSent[k].url = WEATHER_API_URL

\* the wind request goes to the forecast endpoint when the date is the same
\* at both readings
SameDateWindRequestToForecastEndpoint ==
    (Done("get_surf_forecast_by_name")
        /\ \A k \in 1..Len(WindSent) :
             DayOfString(WindSent[k].params.start_date) = Today)
    => \A k \in 1..Len(WindSent) : WindSent[k].url = WEATHER_API_URL

---------------------------------------------------------------------------
(* Claims about maxima and minima on plateaus (SpecTide). *)

\* C28: in the result of fetch_tide_data, next_high_tide and next_low_tide
\* never denote the same sample: no hourly sample is classified both as a
\* local maximum and as a local minimum, plateaus of three or more equal
\* adjacent values included.
C28_HighAndLowAreDifferentSamples ==
    Done("fetch_tide_data")
    => /\ HoursOf(frame.high_tides) \cap HoursOf(frame.low_tides) = {}
       /\ (frame.next_high_tide # <<>> /\ frame.next_low_tide # <<>>)
          => frame.next_high_tide[1]["time"] # frame.next_low_tide[1]["time"]

\* a sample is classified both ways only inside a plateau: it and its two
\* neighbours are equal readings
BothWaysOnlyOnPlateau ==
    Done("fetch_tide_data")
    => \A h \in HoursOf(frame.high_tides) \cap HoursOf(frame.low_tides) :
         /\ h + 1 \in Interior(Series)
         /\ Series[h] = Series[h + 1]
         /\ Series[h + 1] = Series[h + 2]

=============================================================================
